---------------------------- MODULE Spec2Model ----------------------------
(***************************************************************************)
(* Model of the agent graphs of maap-agent-builder: the reflect graph      *)
(* (src/agents/reflection.py), the plan-execute-replan graph               *)
(* (src/agents/plan_excute_replan.py) and the long-term-memory graph with  *)
(* its two memory tools (src/agents/long_term_memory.py), run by the       *)
(* executor loop of spec section 4.3; and the react / tool-call graph the   *)
(* agent factory builds (src/agent_builder/agents/agent_gen.py).           *)
(***************************************************************************)
EXTENDS Integers, Sequences, FiniteSets, TLC

VARIABLES
    graph,            \* which compiled graph this run executes
    node,             \* the node the executor applies next (or END)
    step,             \* number of node applications completed in this run
    status,           \* "running", "done", "RecursionLimitExceeded", "RoutingError", "NodeError"
    recursion_limit,  \* config["recursion_limit"]
    user_id,          \* config["configurable"].get("user_id"), None when absent
    initial_state,    \* history: the state the caller started this run with
    state,            \* the RunState: a record; a key that was never written is absent
    applied,          \* history: the node applications of this run, in order
    llm_calls,        \* history: model / sub-agent invocations made so far
    store,            \* the recall vector store collection: sequence of documents
    index,            \* recall_memory_index: "absent", "pending" or "queryable"
    tool_pc,          \* "idle"; "wait_index" / "sleeping" inside save_recall_memory's wait loop
    last_call,        \* history: the latest invocation of a memory tool
    checkpoints,      \* the checkpoint store's entries for this run's thread identifier
    runs,             \* history: the invocations made on this thread identifier
    chat_histories,   \* AgentApp.chat_histories: thread_id -> list object
    lists,            \* the heap of history list objects, by object identity
    reqs,             \* the /chat requests being handled, one per server thread
    thread_store,     \* the served agent's checkpointer: thread_id -> checkpoints
    checkpointer_bound, \* whether the served agent was compiled with a checkpointer
    turns,            \* history: the completed /chat requests of each thread_id
    overlap,          \* history: thread_ids that had two requests in flight at once
    answered,         \* history: the requests answered without an agent run (400, /reset)
    load_pc,          \* the loader's position: "idle", "load_tools", "resolve", "load_agent", ...
    configs,          \* load_tools: the tool configurations it was given
    pos,              \* load_tools: how many configurations its loop has handled
    tools,            \* load_tools: the list of (config.name, tool) pairs
    components,       \* load_application: result["tools"], the mapping load_tools returned
    agent_tools,      \* load_application: the agent's tool references and their resolution
    agent_config,     \* load_agent: the AgentConfig it was given
    agent_result      \* load_agent: how it ended

vars == <<graph, node, step, status, recursion_limit, user_id, initial_state, state, applied,
          llm_calls, store, index, tool_pc, last_call, checkpoints, runs,
          chat_histories, lists, reqs, thread_store, checkpointer_bound, turns, overlap,
          answered, load_pc, configs, pos, tools, components, agent_tools, agent_config,
          agent_result>>

runvars == <<graph, node, step, status, recursion_limit, user_id, initial_state, state, applied,
             llm_calls, store, index, tool_pc, last_call, checkpoints, runs>>

loadvars == <<load_pc, configs, pos, tools, components, agent_tools, agent_config, agent_result>>

appvars == <<chat_histories, lists, reqs, thread_store, checkpointer_bound, turns, overlap,
             answered, loadvars>>

----------------------------------------------------------------------------
(* Bounds and input sets *)

MaxLimit == 5
MaxDocs == 3
MaxReactLimit == 8
MaxRuns == 2
MaxRequests == 3

None == "<None>"
END == "__end__"

Users == {"A", "B"}
Memories == {"m1", "m2"}
Queries == {[tokens |-> 3]}
Tasks == {"a", "b"}
Plans == {<<>>, <<"a">>, <<"a", "b">>, <<"b", "a", "b">>}
ResponseTexts == {"", "final"}
Results == {"r"}
Generations == {"g"}
InitialItrs == {-1, 0, 1, 2}
MaxIterations == {-1, 0, 1, 2, 3}

NoCall == [tool |-> "none"]
NoOut == [kind |-> "-"]

----------------------------------------------------------------------------
(* State container: merge of a node's partial update into the state *)

Has(s, k) == k \in DOMAIN s

Get(s, k, default) == IF Has(s, k) THEN s[k] ELSE default

MaxId(msgs) ==
    LET ids == {msgs[i].id : i \in 1..Len(msgs)} \cup {0}
    IN  CHOOSE m \in ids : \A x \in ids : x <= m

RECURSIVE AddMessages(_, _)
AddMessages(left, right) ==
    IF right = <<>> THEN left
    ELSE LET m == Head(right)
             hit == {i \in 1..Len(left) : m.id # 0 /\ left[i].id = m.id}
         IN  IF hit # {}
             THEN AddMessages([left EXCEPT ![CHOOSE i \in hit : TRUE] = m], Tail(right))
             ELSE AddMessages(
                     Append(left, IF m.id = 0
                                  THEN [m EXCEPT !.id = MaxId(left \o right) + 1]
                                  ELSE m),
                     Tail(right))

ReducerOverwrite(g, k) == "overwrite"

ReducerAppend(g, k) == IF k \in {"past_steps", "messages"} THEN "add" ELSE "overwrite"

Reducer(g, k) ==
    IF g = "plan_execute_replan" /\ k = "past_steps" THEN "add"
    ELSE IF g \in {"reflect", "long_term_memory", "react"} /\ k = "messages" THEN "add_messages"
    ELSE "overwrite"

Merge(g, s, partial) ==
    [k \in DOMAIN s \cup DOMAIN partial |->
        IF k \notin DOMAIN partial THEN s[k]
        ELSE IF Reducer(g, k) = "add" THEN Get(s, k, <<>>) \o partial[k]
        ELSE IF Reducer(g, k) = "add_messages" THEN AddMessages(Get(s, k, <<>>), partial[k])
        ELSE partial[k]]

----------------------------------------------------------------------------
(* Plan-execute-replan graph *)

NoStepsMessage == "No steps to execute in the plan."

RemainingPlanDropLast(plan) ==
    IF Len(plan) > 1 THEN SubSeq(plan, 1, Len(plan) - 1) ELSE <<>>

RemainingPlan(plan) == IF Len(plan) > 1 THEN SubSeq(plan, 2, Len(plan)) ELSE <<>>

ExecuteCallsAlways(s) == 1

ExecuteCalls(s) == IF s.plan = <<>> THEN 0 ELSE 1

ExecutePartial(s, result) ==
    IF s.plan = <<>>
    THEN [response |-> NoStepsMessage]
    ELSE [past_steps |-> <<(<<s.plan[1], result>>)>>, plan |-> RemainingPlan(s.plan)]

PlanPartial(steps) == [plan |-> steps]

ReplanPartial(act) ==
    IF act.kind = "Response"
    THEN [response |-> act.response]
    ELSE [plan |-> act.steps]

Acts == {[kind |-> "Response", response |-> t] : t \in ResponseTexts}
          \cup {[kind |-> "Plan", steps |-> p] : p \in Plans}

should_end(s) == IF Has(s, "response") /\ s.response # "" THEN END ELSE "continue"

----------------------------------------------------------------------------
(* Reflect graph *)

GenerateMessage(iteration, text) ==
    [id |-> 0, kind |-> "generate", idx |-> iteration, text |-> text]

GeneratePartial(s, text) ==
    LET iteration == Get(s, "itr", 0)
        messages == Get(s, "messages", <<>>)
    IN  [messages |-> messages \o <<GenerateMessage(iteration, text)>>,
         final_response |-> text,
         itr |-> iteration + 1]

ReflectPartialLabelPrev(s, text) ==
    [messages |-> Get(s, "messages", <<>>)
                    \o <<[id |-> 0, kind |-> "reflection", idx |-> s.itr - 1, text |-> text]>>]

ReflectPartial(s, text) ==
    [messages |-> Get(s, "messages", <<>>)
                    \o <<[id |-> 0, kind |-> "reflection", idx |-> s.itr, text |-> text]>>]

should_continue_inclusive(s) ==
    IF Get(s, "itr", 0) <= Get(s, "max_iterations", 3) THEN "continue" ELSE "end"

should_continue(s) ==
    IF Get(s, "itr", 0) < Get(s, "max_iterations", 3) THEN "continue" ELSE "end"

----------------------------------------------------------------------------
(* Long-term-memory graph: the memory tools and the recall vector store *)

K == 3
TokenCap == 2048
NoMemories == "No relevant memories found."

get_user_id_default(config_user) ==
    [raised |-> FALSE, user_id |-> IF config_user = None THEN "default" ELSE config_user]

get_user_id(config_user) ==
    IF config_user = None
    THEN [raised |-> TRUE, user_id |-> None]
    ELSE [raised |-> FALSE, user_id |-> config_user]

Document(memory, id, owner) == [id |-> id, user_id |-> owner, text |-> memory]

AddDocuments(st, doc) == Append(st, doc)

PreFilterOff(st, owner) == {st[i] : i \in 1..Len(st)}

PreFilter(st, owner) == {st[i] : i \in {j \in 1..Len(st) : st[j].user_id = owner}}

Min(a, b) == IF a < b THEN a ELSE b

Rankings(S, k) ==
    UNION {{r \in [1..n -> S] : \A i, j \in 1..n : i # j => r[i] # r[j]} :
             n \in 0..Min(k, Cardinality(S))}

SimilaritySearch(st, query, k, owner) == Rankings(PreFilter(st, owner), k)

PageContents(documents) == [i \in DOMAIN documents |-> documents[i].text]

Call(tool, config_user, arg, outcome, accessed, documents, returned) ==
    [tool |-> tool, user_id |-> config_user, arg |-> arg, outcome |-> outcome,
     accessed |-> accessed, documents |-> documents, returned |-> returned]

SearchOutcomesPropagate(st, config_user, query) ==
    LET u == get_user_id(config_user)
    IN  IF u.raised
        THEN {Call("search_recall_memories", config_user, [query |-> query], "raised", FALSE,
                   <<>>, <<>>)}
        ELSE {Call("search_recall_memories", config_user, [query |-> query], "raised", TRUE,
                   <<>>, <<>>)}
             \cup {Call("search_recall_memories", config_user, [query |-> query], "returned",
                        TRUE, r, PageContents(r)) :
                      r \in SimilaritySearch(st, query, K, u.user_id)}

SearchOutcomes(st, config_user, query) ==
    LET u == get_user_id(config_user)
    IN  IF u.raised
        THEN {Call("search_recall_memories", config_user, [query |-> query], "raised", FALSE,
                   <<>>, <<>>)}
        ELSE {Call("search_recall_memories", config_user, [query |-> query], "fallback", TRUE,
                   <<>>, <<NoMemories>>)}
             \cup {Call("search_recall_memories", config_user, [query |-> query], "returned",
                        TRUE, r, PageContents(r)) :
                      r \in SimilaritySearch(st, query, K, u.user_id)}

SaveCall(config_user, memory, outcome, accessed) ==
    Call("save_recall_memory", config_user, [memory |-> memory], outcome, accessed, <<>>, <<>>)

SaveBegin(config_user, memory) ==
    LET u == get_user_id(config_user)
    IN  IF u.raised
        THEN /\ last_call' = SaveCall(config_user, memory, "raised", FALSE)
             /\ UNCHANGED <<store, index, tool_pc>>
        ELSE \/ /\ last_call' = SaveCall(config_user, memory, "raised", TRUE)
                /\ UNCHANGED <<store, index, tool_pc>>
             \/ /\ Len(store) < MaxDocs
                /\ store' = AddDocuments(store, Document(memory, Len(store) + 1, u.user_id))
                /\ IF index = "absent"
                   THEN /\ index' = "pending"
                        /\ tool_pc' = "wait_index"
                        /\ last_call' = SaveCall(config_user, memory, "waiting", TRUE)
                   ELSE /\ last_call' = SaveCall(config_user, memory, "returned", TRUE)
                        /\ UNCHANGED <<index, tool_pc>>

Truncate(tokens) == IF tokens > TokenCap THEN TokenCap ELSE tokens

RECURSIVE BufferTokens(_)
BufferTokens(messages) ==
    IF messages = <<>> THEN 0 ELSE Head(messages).tokens + BufferTokens(Tail(messages))

(* A text is held as its token sequence in run-length form: the segment
   [id, from, to] stands for the tokens from..to of the message id. *)
Encode(messages) ==
    [i \in DOMAIN messages |-> [id |-> messages[i].id, from |-> 1, to |-> messages[i].tokens]]

RECURSIVE TokenCount(_)
TokenCount(tokens) ==
    IF tokens = <<>> THEN 0
    ELSE Head(tokens).to - Head(tokens).from + 1 + TokenCount(Tail(tokens))

RECURSIVE SliceLast(_, _)
SliceLast(tokens, n) ==
    LET d == TokenCount(tokens) - n
        h == Head(tokens)
    IN  IF d <= 0 THEN tokens
        ELSE IF h.to - h.from + 1 <= d THEN SliceLast(Tail(tokens), n)
        ELSE <<[h EXCEPT !.from = h.from + d]>> \o Tail(tokens)

RECURSIVE Slice(_, _)
Slice(tokens, n) ==
    IF tokens = <<>> \/ n <= 0 THEN <<>>
    ELSE LET h == Head(tokens)
             m == h.to - h.from + 1
         IN  IF m <= n THEN <<h>> \o Slice(Tail(tokens), n - m)
             ELSE <<[h EXCEPT !.to = h.from + n - 1]>>

TruncateTokens(tokens) ==
    IF TokenCount(tokens) > TokenCap THEN Slice(tokens, TokenCap) ELSE tokens

ConvoQuery(messages) ==
    [tokens |-> Truncate(BufferTokens(messages)), parts |-> TruncateTokens(Encode(messages))]

route_tools_hasattr(s) ==
    LET msg == s.messages[Len(s.messages)]
    IN  IF Has(msg, "tool_calls") THEN "tools" ELSE END

route_tools(s) ==
    LET msg == s.messages[Len(s.messages)]
    IN  IF Has(msg, "tool_calls") /\ msg.tool_calls # <<>> THEN "tools" ELSE END

AIMessage(tool_calls) == [id |-> 0, kind |-> "ai", tokens |-> 1, tool_calls |-> tool_calls]

ToolMessage(content) == [id |-> 0, kind |-> "tool", tokens |-> 1, content |-> content]

ReactReplies ==
    {AIMessage(<<>>)} \cup {AIMessage(<<[name |-> "tool", args |-> [query |-> q]]>>) : q \in Queries}

ToolOutputs == {<<"result">>, <<"Error">>}

tools_condition_end(s) == END

tools_condition(s) ==
    LET msg == s.messages[Len(s.messages)]
    IN  IF Has(msg, "tool_calls") /\ msg.tool_calls # <<>> THEN "tools" ELSE END

AgentReplies(st) ==
    {AIMessage(<<>>)}
      \cup {AIMessage(<<[name |-> "search_recall_memories", args |-> [query |-> q]]>>) : q \in Queries}
      \cup {AIMessage(<<[name |-> "save_recall_memory", args |-> [memory |-> m]]>>) :
              m \in IF Len(st) < MaxDocs THEN Memories ELSE {}}

----------------------------------------------------------------------------
(* Edge router *)

Nodes(g) ==
    CASE g = "reflect" -> {"generate", "reflect"}
      [] g = "plan_execute_replan" -> {"plan", "execute", "replan"}
      [] g = "long_term_memory" -> {"load_memories", "agent", "tools"}
      [] g = "react" -> {"agent", "tools"}
      [] OTHER -> {}

EntryPoint(g) ==
    CASE g = "reflect" -> "generate"
      [] g = "plan_execute_replan" -> "plan"
      [] g = "long_term_memory" -> "load_memories"
      [] g = "react" -> "agent"
      [] OTHER -> END

StaticEdgesReflectEnds(g) ==
    CASE g = "reflect" -> [reflect |-> END]
      [] g = "plan_execute_replan" -> [plan |-> "execute", execute |-> "replan"]
      [] g = "long_term_memory" -> [load_memories |-> "agent", tools |-> "agent"]
      [] g = "react" -> [tools |-> "agent"]
      [] OTHER -> <<>>

StaticEdges(g) ==
    CASE g = "reflect" -> [reflect |-> "generate"]
      [] g = "plan_execute_replan" -> [plan |-> "execute", execute |-> "replan"]
      [] g = "long_term_memory" -> [load_memories |-> "agent", tools |-> "agent"]
      [] g = "react" -> [tools |-> "agent"]
      [] OTHER -> <<>>

ConditionalSource(g) ==
    CASE g = "reflect" -> "generate"
      [] g = "plan_execute_replan" -> "replan"
      [] g = "long_term_memory" -> "agent"
      [] g = "react" -> "agent"
      [] OTHER -> END

Decide(g, s) ==
    CASE g = "reflect" -> should_continue(s)
      [] g = "plan_execute_replan" -> should_end(s)
      [] g = "long_term_memory" -> route_tools(s)
      [] g = "react" -> tools_condition(s)

PathMapWithoutEnd(g) ==
    CASE g = "reflect" -> [continue |-> "reflect", end |-> "generate"]
      [] g = "plan_execute_replan" -> [end |-> "plan", continue |-> "execute"]
      [] g = "long_term_memory" -> ("tools" :> "tools") @@ (END :> "agent")
      [] g = "react" -> ("tools" :> "tools") @@ (END :> "agent")
      [] OTHER -> <<>>

PathMap(g) ==
    CASE g = "reflect" -> [continue |-> "reflect", end |-> END]
      [] g = "plan_execute_replan" -> [end |-> END, continue |-> "execute"]
      [] g = "long_term_memory" -> ("tools" :> "tools") @@ (END :> END)
      [] g = "react" -> ("tools" :> "tools") @@ (END :> END)
      [] OTHER -> <<>>

Route(g, n, s) ==
    IF n \in DOMAIN StaticEdges(g)
    THEN [ok |-> TRUE, target |-> StaticEdges(g)[n]]
    ELSE LET r == Decide(g, s)
         IN  IF r \in DOMAIN PathMap(g)
             THEN [ok |-> TRUE, target |-> PathMap(g)[r]]
             ELSE [ok |-> FALSE, target |-> r]

----------------------------------------------------------------------------
(* Executor (run loop) *)

Graphs == {"reflect", "plan_execute_replan", "long_term_memory", "react"}

CanStepOffByOne(limit, k) == k <= limit

CanStep(limit, k) == k < limit

Ready(g, n) ==
    /\ graph = g
    /\ status = "running"
    /\ node = n
    /\ tool_pc = "idle"
    /\ CanStep(recursion_limit, step)

StoreUnchanged == UNCHANGED <<store, index, tool_pc, last_call>>

Checkpoint(k, s, n) == [step |-> k, state |-> s, next |-> n]

NextCheckpointStepOfRun(cps, k) == k

NextCheckpointStep(cps, k) == IF cps = <<>> THEN 0 ELSE cps[Len(cps)].step + 1

Advance(n, partial, out) ==
    LET s2 == Merge(graph, state, partial)
        r == Route(graph, n, s2)
    IN  /\ state' = s2
        /\ checkpoints' = Append(checkpoints,
                                  Checkpoint(NextCheckpointStep(checkpoints, step), s2, r.target))
        /\ applied' = Append(applied, [node |-> n, out |-> out])
        /\ step' = step + 1
        /\ IF r.ok
           THEN node' = r.target /\ status' = status
           ELSE node' = n /\ status' = "RoutingError"
        /\ UNCHANGED <<graph, recursion_limit, user_id, initial_state, runs>>

Raise ==
    /\ status' = "NodeError"
    /\ UNCHANGED <<graph, node, step, recursion_limit, user_id, initial_state, state, applied, checkpoints, runs>>

Finish ==
    /\ UNCHANGED appvars
    /\ status = "running"
    /\ graph \in Graphs
    /\ node = END
    /\ status' = "done"
    /\ UNCHANGED <<graph, node, step, recursion_limit, user_id, initial_state, state, applied, checkpoints, runs, llm_calls>>
    /\ StoreUnchanged

RecursionLimit ==
    /\ UNCHANGED appvars
    /\ status = "running"
    /\ graph \in Graphs
    /\ node # END
    /\ tool_pc = "idle"
    /\ ~CanStep(recursion_limit, step)
    /\ status' = "RecursionLimitExceeded"
    /\ UNCHANGED <<graph, node, step, recursion_limit, user_id, initial_state, state, applied, checkpoints, runs, llm_calls>>
    /\ StoreUnchanged

----------------------------------------------------------------------------
(* Node applications: plan-execute-replan *)

Plan ==
    /\ UNCHANGED appvars
    /\ Ready("plan_execute_replan", "plan")
    /\ StoreUnchanged
    /\ IF ~Has(state, "input")
       THEN Raise /\ UNCHANGED llm_calls
       ELSE /\ llm_calls' = llm_calls + 1
            /\ \/ Raise
               \/ \E steps \in Plans : Advance("plan", PlanPartial(steps), NoOut)

Execute ==
    /\ UNCHANGED appvars
    /\ Ready("plan_execute_replan", "execute")
    /\ StoreUnchanged
    /\ llm_calls' = llm_calls + ExecuteCalls(state)
    /\ \/ ExecuteCalls(state) > 0 /\ Raise
       \/ \E result \in Results : Advance("execute", ExecutePartial(state, result), NoOut)

Replan ==
    /\ UNCHANGED appvars
    /\ Ready("plan_execute_replan", "replan")
    /\ StoreUnchanged
    /\ llm_calls' = llm_calls + 1
    /\ \/ Raise
       \/ \E act \in Acts : Advance("replan", ReplanPartial(act), act)

----------------------------------------------------------------------------
(* Node applications: reflect *)

MissingInputNever(s) == FALSE

MissingInput(s) == ~Has(s, "input")

Generate ==
    /\ UNCHANGED appvars
    /\ Ready("reflect", "generate")
    /\ StoreUnchanged
    /\ IF MissingInput(state)
       THEN Raise /\ UNCHANGED llm_calls
       ELSE /\ llm_calls' = llm_calls + 1
            /\ \/ Raise
               \/ \E text \in Generations : Advance("generate", GeneratePartial(state, text), NoOut)

Reflect ==
    /\ UNCHANGED appvars
    /\ Ready("reflect", "reflect")
    /\ StoreUnchanged
    /\ llm_calls' = llm_calls + 1
    /\ \/ Raise
       \/ Advance("reflect", ReflectPartial(state, "critique"), NoOut)

----------------------------------------------------------------------------
(* Node applications: long-term memory *)

LoadMemories ==
    /\ UNCHANGED appvars
    /\ Ready("long_term_memory", "load_memories")
    /\ UNCHANGED <<store, index, tool_pc, llm_calls>>
    /\ \E c \in SearchOutcomes(store, user_id, ConvoQuery(state.messages)) :
          /\ last_call' = c
          /\ IF c.outcome = "raised"
             THEN Raise
             ELSE Advance("load_memories", [recall_memories |-> c.returned], NoOut)

Agent ==
    /\ UNCHANGED appvars
    /\ Ready("long_term_memory", "agent")
    /\ StoreUnchanged
    /\ llm_calls' = llm_calls + 1
    /\ \/ Raise
       \/ \E prediction \in AgentReplies(store) :
             Advance("agent", [messages |-> <<prediction>>], NoOut)

ToolResult(c) ==
    IF c.outcome = "raised" THEN ToolMessage(<<"Error">>)
    ELSE IF c.tool = "save_recall_memory" THEN ToolMessage(<<c.arg.memory>>)
    ELSE ToolMessage(c.returned)

Tools ==
    /\ UNCHANGED appvars
    /\ Ready("long_term_memory", "tools")
    /\ UNCHANGED llm_calls
    /\ LET call == Head(state.messages[Len(state.messages)].tool_calls
                         \o <<[name |-> "none"]>>)
       IN  IF call.name = "none"
           THEN StoreUnchanged /\ Advance("tools", [messages |-> <<>>], NoOut)
           ELSE IF call.name = "save_recall_memory"
           THEN /\ SaveBegin(user_id, call.args.memory)
                /\ IF tool_pc' = "wait_index"
                   THEN UNCHANGED <<graph, node, step, status, recursion_limit, user_id,
                                    initial_state, state, applied, checkpoints, runs>>
                   ELSE Advance("tools", [messages |-> <<ToolResult(last_call')>>], NoOut)
           ELSE /\ UNCHANGED <<store, index, tool_pc>>
                /\ \E c \in SearchOutcomes(store, user_id, call.args.query) :
                      /\ last_call' = c
                      /\ Advance("tools", [messages |-> <<ToolResult(c)>>], NoOut)

(* save_recall_memory's wait loop: one poll of list_search_indexes *)
PollIndex ==
    /\ UNCHANGED appvars
    /\ tool_pc = "wait_index"
    /\ UNCHANGED <<store, index, llm_calls>>
    /\ IF index = "queryable"
       THEN /\ tool_pc' = "idle"
            /\ last_call' = [last_call EXCEPT !.outcome = "returned"]
            /\ IF graph = "long_term_memory"
               THEN Advance("tools", [messages |-> <<ToolResult(last_call')>>], NoOut)
               ELSE UNCHANGED <<graph, node, step, status, recursion_limit, user_id,
                                initial_state, state, applied, checkpoints, runs>>
       ELSE /\ tool_pc' = "sleeping"
            /\ UNCHANGED <<last_call, graph, node, step, status, recursion_limit,
                           user_id, initial_state, state, applied, checkpoints, runs>>

(* save_recall_memory's wait loop: time.sleep(10) returns *)
Sleep ==
    /\ UNCHANGED appvars
    /\ tool_pc = "sleeping"
    /\ tool_pc' = "wait_index"
    /\ UNCHANGED <<graph, node, step, status, recursion_limit, user_id, initial_state,
                   state, applied, checkpoints, runs, llm_calls, store, index, last_call>>

(* the search index service finishes building the index *)
IndexBuilt ==
    /\ UNCHANGED appvars
    /\ index = "pending"
    /\ index' = "queryable"
    /\ UNCHANGED <<graph, node, step, status, recursion_limit, user_id, initial_state,
                   state, applied, checkpoints, runs, llm_calls, store, tool_pc, last_call>>

----------------------------------------------------------------------------
(* Node applications: react / tool-call *)

ReactAgent ==
    /\ UNCHANGED appvars
    /\ Ready("react", "agent")
    /\ StoreUnchanged
    /\ llm_calls' = llm_calls + 1
    /\ \/ Raise
       \/ \E reply \in ReactReplies :
             Advance("agent", [messages |-> <<reply>>],
                     [kind |-> IF reply.tool_calls = <<>> THEN "reply" ELSE "tool_call"])

ReactTools ==
    /\ UNCHANGED appvars
    /\ Ready("react", "tools")
    /\ StoreUnchanged
    /\ UNCHANGED llm_calls
    /\ \E content \in ToolOutputs :
          Advance("tools", [messages |-> <<ToolMessage(content)>>], NoOut)

----------------------------------------------------------------------------
(* The memory tools invoked directly, with any run configuration *)

InvokeSave ==
    /\ UNCHANGED appvars
    /\ graph = "memory_tools"
    /\ tool_pc = "idle"
    /\ \E u \in Users \cup {None}, m \in Memories :
          /\ user_id' = u
          /\ SaveBegin(u, m)
    /\ UNCHANGED <<graph, node, step, status, recursion_limit, initial_state, state,
                   applied, checkpoints, runs, llm_calls>>

InvokeSearch ==
    /\ UNCHANGED appvars
    /\ graph = "memory_tools"
    /\ tool_pc = "idle"
    /\ \E u \in Users \cup {None}, q \in Queries :
          /\ user_id' = u
          /\ last_call' \in SearchOutcomes(store, u, q)
    /\ UNCHANGED <<graph, node, step, status, recursion_limit, initial_state, state,
                   applied, checkpoints, runs, llm_calls, store, index, tool_pc>>

----------------------------------------------------------------------------
(* The request handler: POST /chat of AgentApp, served by concurrent server
   threads.  The server threads are interchangeable: a request is taken by
   the lowest idle one.  A request without a message is answered 400 and
   changes nothing. *)

Threads == {"t1", "t2"}
Slots == {1, 2}

UserMessages(t) == IF t = "t1" THEN {"a"} ELSE {"b"}

NoError == [type |-> "-", node |-> "-", step |-> 0, message |-> "-"]

NodeFailures ==
    {[type |-> "ValueError", node |-> "agent", step |-> 0, message |-> "model call failed"]}

RunFailures ==
    {[type |-> "KeyError", node |-> "agent", step |-> 0, message |-> "'__end__'"],
     [type |-> "GraphRecursionError", node |-> "agent", step |-> 1,
      message |-> "Recursion limit reached without hitting a stop condition"]}

NoAnswer == [count |-> 0, route |-> "-", thread_id |-> "-", status |-> "-"]

Answer(route, thread_id, status_text) ==
    [count |-> answered.count + 1, route |-> route, thread_id |-> thread_id,
     status |-> status_text]

IdleReq ==
    [pc |-> "idle", thread |-> "-", message |-> "-", list |-> 0, input |-> <<>>,
     state |-> <<>>, applied |-> FALSE, error |-> NoError]

EntryAsUser(role, content) == [role |-> "user", content |-> content]

Entry(role, content) == [role |-> role, content |-> content]

HistoryKeyShared(thread_id) == "t1"

HistoryKey(thread_id) == thread_id

History(t) ==
    IF HistoryKey(t) \in DOMAIN chat_histories THEN lists[chat_histories[HistoryKey(t)]] ELSE <<>>

InputMessages(chat_history, user_message) ==
    chat_history \o <<Entry("user", [text |-> user_message])>>

Coerce(entries) ==
    [i \in DOMAIN entries |->
        [id |-> 0, kind |-> IF entries[i].role = "user" THEN "human" ELSE "ai",
         content |-> entries[i].content]]

LatestMessages(cps) ==
    IF checkpointer_bound /\ cps # <<>> THEN cps[Len(cps)].messages ELSE <<>>

AgentInitialState(cps, input) == AddMessages(LatestMessages(cps), Coerce(input))

AgentReply(messages) ==
    [id |-> 0, kind |-> "ai",
     content |-> [text |-> "reply", to |-> messages[Len(messages)].content.text,
                  n |-> Len(messages)]]

AgentAppliedState(messages) == AddMessages(messages, <<AgentReply(messages)>>)

PutCheckpoint(cps, messages) ==
    IF checkpointer_bound THEN Append(cps, [step |-> Len(cps), messages |-> messages]) ELSE cps

ErrorText(e) == [text |-> "Error: ", message |-> e.message]

AgentResponse(req) ==
    IF req.error # NoError THEN ErrorText(req.error)
    ELSE req.state[Len(req.state)].content

InFlight(t) == {r \in Slots : reqs[r].pc # "idle" /\ reqs[r].thread = t}

RECURSIVE Completed(_)
Completed(T) ==
    IF T = {} THEN 0
    ELSE LET t == CHOOSE x \in T : TRUE IN Len(turns[t]) + Completed(T \ {t})

Started ==
    Completed(Threads) + Cardinality({r \in Slots : reqs[r].pc # "idle"}) + answered.count

ChatReceive(r) ==
    /\ graph = "app"
    /\ reqs[r].pc = "idle"
    /\ \A q \in Slots : q < r => reqs[q].pc # "idle"
    /\ Started < MaxRequests
    /\ \E t \in Threads :
          /\ \E m \in UserMessages(t) \cup {None} :
                IF m = None
                THEN /\ answered' = Answer("chat", "-", "400")
                     /\ UNCHANGED <<reqs, lists, overlap>>
                ELSE LET known == HistoryKey(t) \in DOMAIN chat_histories
                         chat_history == IF known THEN chat_histories[HistoryKey(t)]
                                         ELSE Len(lists) + 1
                     IN  /\ lists' = IF known THEN lists ELSE Append(lists, <<>>)
                         /\ reqs' = [reqs EXCEPT ![r] =
                                        [IdleReq EXCEPT
                                            !.pc = "invoke", !.thread = t, !.message = m,
                                            !.list = chat_history,
                                            !.input = InputMessages(lists'[chat_history], m)]]
                         /\ overlap' = IF InFlight(t) # {} THEN overlap \cup {t} ELSE overlap
                         /\ UNCHANGED answered
    /\ UNCHANGED <<chat_histories, thread_store, checkpointer_bound, turns>>
    /\ UNCHANGED <<runvars, loadvars>>

AgentStart(r) ==
    /\ graph = "app"
    /\ reqs[r].pc = "invoke"
    /\ reqs' = [reqs EXCEPT ![r].pc = "running",
                              ![r].state = AgentInitialState(thread_store[reqs[r].thread],
                                                             reqs[r].input)]
    /\ UNCHANGED <<chat_histories, lists, thread_store, checkpointer_bound, turns, overlap,
                   answered>>
    /\ UNCHANGED <<runvars, loadvars>>

AgentNode(r) ==
    /\ graph = "app"
    /\ reqs[r].pc = "running"
    /\ LET s2 == AgentAppliedState(reqs[r].state)
       IN  /\ reqs' = [reqs EXCEPT ![r].pc = "ran", ![r].state = s2, ![r].applied = TRUE]
           /\ thread_store' = [thread_store EXCEPT ![reqs[r].thread] = PutCheckpoint(@, s2)]
    /\ UNCHANGED <<chat_histories, lists, checkpointer_bound, turns, overlap, answered>>
    /\ UNCHANGED <<runvars, loadvars>>

AgentRaise(r) ==
    /\ graph = "app"
    /\ reqs[r].pc \in {"running", "ran"}
    /\ \E e \in IF reqs[r].pc = "running" THEN NodeFailures ELSE RunFailures :
          reqs' = [reqs EXCEPT ![r].pc = "failed", ![r].error = e]
    /\ UNCHANGED <<chat_histories, lists, thread_store, checkpointer_bound, turns, overlap,
                   answered>>
    /\ UNCHANGED <<runvars, loadvars>>

ChatRespond(r) ==
    /\ graph = "app"
    /\ reqs[r].pc \in {"ran", "failed"}
    /\ LET req == reqs[r]
           agent_response == AgentResponse(req)
       IN  /\ lists' = [lists EXCEPT ![req.list] =
                           @ \o <<Entry("user", [text |-> req.message]),
                                   Entry("assistant", agent_response)>>]
           /\ chat_histories' = (HistoryKey(req.thread) :> req.list) @@ chat_histories
           /\ reqs' = [reqs EXCEPT ![r] = IdleReq]
           /\ turns' = [turns EXCEPT ![req.thread] =
                          Append(@, [message |-> req.message, applied |-> req.applied,
                                     error |-> req.error,
                                     body |-> [status_code |-> 200,
                                               response |-> agent_response,
                                               history |-> lists'[req.list],
                                               thread_id |-> req.thread]])]
    /\ UNCHANGED <<thread_store, checkpointer_bound, overlap, answered>>
    /\ UNCHANGED <<runvars, loadvars>>

(* POST /reset of AgentApp *)
ResetHistoriesAll(histories, thread_id, fresh) == <<>>

ResetHistories(histories, thread_id, fresh) ==
    IF thread_id # None
    THEN IF HistoryKey(thread_id) \in DOMAIN histories
         THEN [histories EXCEPT ![HistoryKey(thread_id)] = fresh]
         ELSE histories
    ELSE <<>>

Reset(thread_id) ==
    /\ graph = "app"
    /\ Started < MaxRequests
    /\ LET known == thread_id # None /\ HistoryKey(thread_id) \in DOMAIN chat_histories
           fresh == Len(lists) + 1
       IN  /\ lists' = IF known THEN Append(lists, <<>>) ELSE lists
           /\ chat_histories' = ResetHistories(chat_histories, thread_id, fresh)
           /\ answered' = Answer("reset", thread_id,
                                 IF thread_id # None /\ ~known THEN "warning" ELSE "success")
    /\ overlap' = overlap \cup {t \in Threads :
                                  InFlight(t) # {} /\ (thread_id = None \/ thread_id = t)}
    /\ UNCHANGED <<reqs, thread_store, checkpointer_bound, turns>>
    /\ UNCHANGED <<runvars, loadvars>>

NoResult == [status |-> "-", why |-> "-", missing |-> {}]

InitLoadIdle ==
    /\ load_pc = "idle"
    /\ configs = <<>>
    /\ pos = 0
    /\ tools = <<>>
    /\ components = <<>>
    /\ agent_tools = [names |-> <<>>, tools |-> <<>>]
    /\ agent_config = <<>>
    /\ agent_result = NoResult

InitAppIdle ==
    /\ chat_histories = <<>>
    /\ lists = <<>>
    /\ reqs = [r \in Slots |-> IdleReq]
    /\ thread_store = [t \in Threads |-> <<>>]
    /\ checkpointer_bound = TRUE
    /\ turns = [t \in Threads |-> <<>>]
    /\ overlap = {}
    /\ answered = NoAnswer
    /\ InitLoadIdle

----------------------------------------------------------------------------
(* Further invocations on the thread identifier of a run that has ended *)

ThreadGraphs == {"plan_execute_replan", "reflect"}

ThreadLimits == {1, 2, 3}

Ended == {"done", "NodeError", "RoutingError", "RecursionLimitExceeded"}

FirstRun == [kind |-> "run", at |-> 0, after |-> "-"]

SchemaDefaults(g) ==
    CASE g = "plan_execute_replan" -> [past_steps |-> <<>>]
      [] OTHER -> [messages |-> <<>>]

RunInputs(g) ==
    CASE g = "plan_execute_replan" -> {[input |-> "q"], <<>>}
      [] OTHER -> {[input |-> "q"], [input |-> "q", itr |-> 0, max_iterations |-> 2], <<>>}

Latest == checkpoints[Len(checkpoints)]

LatestState(g) == IF checkpoints = <<>> THEN SchemaDefaults(g) ELSE Latest.state

RestoredFresh(g, inp) == Merge(g, SchemaDefaults(g), inp)

Restored(g, inp) == Merge(g, LatestState(g), inp)

(* agent.invoke(input, config) with the thread identifier of an earlier run *)
NewRun ==
    /\ UNCHANGED appvars
    /\ graph \in ThreadGraphs
    /\ status \in Ended
    /\ Len(runs) < MaxRuns
    /\ \E inp \in RunInputs(graph) : state' = Restored(graph, inp)
    /\ initial_state' = state'
    /\ node' = EntryPoint(graph)
    /\ step' = 0
    /\ status' = "running"
    /\ applied' = <<>>
    /\ runs' = Append(runs, [kind |-> "invoke", at |-> 0, after |-> status])
    /\ UNCHANGED <<graph, recursion_limit, user_id, llm_calls, checkpoints>>
    /\ StoreUnchanged

(* resume(thread_id): continue the aborted run from its latest checkpoint *)
Resume ==
    /\ UNCHANGED appvars
    /\ graph \in ThreadGraphs
    /\ status = "NodeError"
    /\ Len(runs) < MaxRuns
    /\ status' = "running"
    /\ IF applied = <<>>
       THEN state' = initial_state /\ node' = EntryPoint(graph)
       ELSE state' = Latest.state /\ node' = Latest.next
    /\ runs' = Append(runs, [kind |-> "resume", at |-> step, after |-> status])
    /\ UNCHANGED <<graph, step, recursion_limit, user_id, initial_state, applied, llm_calls,
                   checkpoints>>
    /\ StoreUnchanged

----------------------------------------------------------------------------
InitRun(g) ==
    /\ graph = g
    /\ node = EntryPoint(g)
    /\ step = 0
    /\ status = "running"
    /\ recursion_limit \in 1..MaxLimit
    /\ applied = <<>>
    /\ llm_calls = 0
    /\ tool_pc = "idle"
    /\ last_call = NoCall
    /\ checkpoints = <<>>
    /\ runs = <<FirstRun>>
    /\ InitAppIdle

InitPlanExecute ==
    /\ InitRun("plan_execute_replan")
    /\ user_id = None
    /\ state \in {[input |-> "q", past_steps |-> <<>>], [past_steps |-> <<>>]}
    /\ initial_state = state
    /\ store = <<>>
    /\ index = "absent"

InitReflect ==
    /\ InitRun("reflect")
    /\ user_id = None
    /\ \E hasInput, hasItr, hasMax \in BOOLEAN, itr \in InitialItrs, max \in MaxIterations :
          /\ ~hasItr => itr = 0
          /\ ~hasMax => max = 3
          /\ state = (IF hasInput THEN [input |-> "q"] ELSE <<>>)
                        @@ (IF hasItr THEN [itr |-> itr] ELSE <<>>)
                        @@ (IF hasMax THEN [max_iterations |-> max] ELSE <<>>)
                        @@ [messages |-> <<>>]
    /\ initial_state = state
    /\ store = <<>>
    /\ index = "absent"

Conversations == {<<7>>, <<TokenCap + 1>>, <<TokenCap - 8, 10>>}

SeedStores ==
    {<<>>, <<Document("m1", 1, "A"), Document("m1", 2, "B")>>,
     <<Document("m1", 1, "A"), Document("m2", 2, "A"), Document("m1", 3, "A"),
       Document("m2", 4, "A")>>}

(* the conversations and stores a run starts from: the short conversation over every
   store, the long conversations over the two-user store *)
MemoryRuns ==
    {run \in Conversations \X SeedStores : run[1] = <<7>> \/ Len(run[2]) = 2}

InitLongTermMemory ==
    /\ InitRun("long_term_memory")
    /\ user_id \in Users \cup {None}
    /\ \E run \in MemoryRuns :
          /\ state = [messages |-> [i \in DOMAIN run[1] |->
                                       [id |-> i, kind |-> "human", tokens |-> run[1][i]]]]
          /\ store = run[2]
    /\ initial_state = state
    /\ index = (IF store = <<>> THEN "absent" ELSE "queryable")

InitReact ==
    /\ graph = "react"
    /\ node = EntryPoint("react")
    /\ step = 0
    /\ status = "running"
    /\ recursion_limit \in 1..MaxReactLimit
    /\ user_id = None
    /\ state \in {[messages |-> <<>>],
                  [messages |-> <<[id |-> 1, kind |-> "human", tokens |-> 7]>>]}
    /\ initial_state = state
    /\ applied = <<>>
    /\ llm_calls = 0
    /\ store = <<>>
    /\ index = "absent"
    /\ tool_pc = "idle"
    /\ last_call = NoCall
    /\ checkpoints = <<>>
    /\ runs = <<FirstRun>>
    /\ InitAppIdle

InitMemoryTools ==
    /\ graph = "memory_tools"
    /\ node = END
    /\ step = 0
    /\ status = "running"
    /\ recursion_limit = 1
    /\ user_id = None
    /\ state = <<>>
    /\ initial_state = state
    /\ applied = <<>>
    /\ llm_calls = 0
    /\ store = <<>>
    /\ index = "absent"
    /\ tool_pc = "idle"
    /\ last_call = NoCall
    /\ checkpoints = <<>>
    /\ runs = <<FirstRun>>
    /\ InitAppIdle

Init == InitPlanExecute \/ InitReflect \/ InitLongTermMemory \/ InitReact \/ InitMemoryTools

Next ==
    \/ Plan \/ Execute \/ Replan
    \/ Generate \/ Reflect
    \/ LoadMemories \/ Agent \/ Tools \/ PollIndex \/ Sleep \/ IndexBuilt
    \/ ReactAgent \/ ReactTools
    \/ InvokeSave \/ InvokeSearch
    \/ Finish \/ RecursionLimit

Spec == Init /\ [][Next]_vars

(* save_recall_memory's wait loop keeps polling and sleeping once entered;
   nothing obliges the search index service to finish building the index. *)
FairSpec == Spec /\ WF_vars(PollIndex) /\ WF_vars(Sleep)

(* Runs of the graphs compiled with a checkpointer, followed by further
   invocations on the same thread identifier *)
ThreadInit ==
    \E g \in ThreadGraphs :
        /\ graph = g
        /\ node = EntryPoint(g)
        /\ step = 0
        /\ status = "running"
        /\ recursion_limit \in ThreadLimits
        /\ applied = <<>>
        /\ llm_calls = 0
        /\ tool_pc = "idle"
        /\ last_call = NoCall
        /\ checkpoints = <<>>
        /\ runs = <<FirstRun>>
        /\ InitAppIdle
        /\ user_id = None
        /\ state \in {Merge(g, SchemaDefaults(g), inp) : inp \in RunInputs(g)}
        /\ initial_state = state
        /\ store = <<>>
        /\ index = "absent"

ThreadNext ==
    \/ Plan \/ Execute \/ Replan
    \/ Generate \/ Reflect
    \/ Finish \/ RecursionLimit
    \/ NewRun \/ Resume

ThreadSpec == ThreadInit /\ [][ThreadNext]_vars

(* The server: concurrent POST /chat requests against one loaded agent *)
AppInit ==
    /\ graph = "app"
    /\ node = END
    /\ step = 0
    /\ status = "running"
    /\ recursion_limit = 1
    /\ user_id = None
    /\ state = <<>>
    /\ initial_state = state
    /\ applied = <<>>
    /\ llm_calls = 0
    /\ store = <<>>
    /\ index = "absent"
    /\ tool_pc = "idle"
    /\ last_call = NoCall
    /\ checkpoints = <<>>
    /\ runs = <<FirstRun>>
    /\ chat_histories = <<>>
    /\ lists = <<>>
    /\ reqs = [r \in Slots |-> IdleReq]
    /\ thread_store = [t \in Threads |-> <<>>]
    /\ checkpointer_bound \in BOOLEAN
    /\ turns = [t \in Threads |-> <<>>]
    /\ overlap = {}
    /\ answered = NoAnswer
    /\ InitLoadIdle

AppNext ==
    \E r \in Slots :
        \/ ChatReceive(r)
        \/ AgentStart(r)
        \/ AgentNode(r)
        \/ AgentRaise(r)
        \/ ChatRespond(r)

AppSpec == AppInit /\ [][AppNext]_vars

(* The server with both of its state-changing routes, /chat and /reset *)
ServerNext ==
    \/ AppNext
    \/ \E thread_id \in Threads \cup {None} : Reset(thread_id)

ServerSpec == AppInit /\ [][ServerNext]_vars

----------------------------------------------------------------------------
(* The loaders: load_tools, load_application's tool references, load_agent *)

MaxConfigs == 2
MaxToolkit == 2

ToolType == {"vector_search", "mongodb_toolkit", "nl_to_mql", "mcp", "full_text_search"}

ToolNames == {"search", "db"}

(* A ToolConfig: its name, its type, and whether every field its type requires is set *)
ToolConfigs ==
    [name : ToolNames,
     tool_type : {"vector_search", "mongodb_toolkit", "mcp", "graph_search"},
     complete : BOOLEAN]

ConfigLists ==
    UNION {[1..n -> ToolConfigs] : n \in 0..MaxConfigs}

(* A tool instance, by identity: the k-th tool the i-th configuration produced *)
ToolInstance(i, k) == [config |-> i, k |-> k]

ToolList(i, n) == [k \in 1..n |-> ToolInstance(i, k)]

Raised == [raised |-> TRUE, tools |-> <<>>]

Loaded(instances) == [raised |-> FALSE, tools |-> instances]

(* load_tool(config) for the i-th configuration: what it can raise or return *)
load_tool(config, i) ==
    IF config.tool_type \notin ToolType
    THEN {Raised}
    ELSE IF ~config.complete
    THEN {Raised}
    ELSE IF config.tool_type = "mcp"
    THEN {Loaded(ToolList(i, n)) : n \in 0..MaxToolkit}
    ELSE IF config.tool_type = "mongodb_toolkit"
    THEN {Raised} \cup {Loaded(ToolList(i, n)) : n \in 1..MaxToolkit}
    ELSE {Raised, Loaded(ToolList(i, 1))}

(* tools.extend(zip([config.name] * len(tool), tool)) and tools.append((config.name, tool)) *)
Pairs(name, instances) == [k \in DOMAIN instances |-> <<name, instances[k]>>]

(* dict(tools): a later pair replaces an earlier pair with the same key *)
RECURSIVE Dict(_)
Dict(pairs) ==
    IF pairs = <<>>
    THEN <<>>
    ELSE LET last == pairs[Len(pairs)]
         IN  (last[1] :> last[2]) @@ Dict(SubSeq(pairs, 1, Len(pairs) - 1))

(* one iteration of load_tools' loop, its try/except included *)
LoadTool ==
    /\ graph = "loader"
    /\ load_pc = "load_tools"
    /\ pos < Len(configs)
    /\ \E outcome \in load_tool(configs[pos + 1], pos + 1) :
           tools' = IF outcome.raised
                    THEN tools
                    ELSE tools \o Pairs(configs[pos + 1].name, outcome.tools)
    /\ pos' = pos + 1
    /\ UNCHANGED <<load_pc, configs, components, agent_tools, agent_config, agent_result>>
    /\ UNCHANGED <<graph, node, step, status, recursion_limit, user_id, initial_state, state,
                   applied, llm_calls, store, index, tool_pc, last_call, checkpoints, runs>>
    /\ UNCHANGED <<chat_histories, lists, reqs, thread_store, checkpointer_bound, turns,
                   overlap, answered>>

(* return dict(tools), stored by load_application as result["tools"] *)
LoadToolsReturn ==
    /\ graph = "loader"
    /\ load_pc = "load_tools"
    /\ pos = Len(configs)
    /\ components' = Dict(tools)
    /\ load_pc' = "resolve"
    /\ UNCHANGED <<configs, pos, tools, agent_tools, agent_config, agent_result>>
    /\ UNCHANGED <<graph, node, step, status, recursion_limit, user_id, initial_state, state,
                   applied, llm_calls, store, index, tool_pc, last_call, checkpoints, runs>>
    /\ UNCHANGED <<chat_histories, lists, reqs, thread_store, checkpointer_bound, turns,
                   overlap, answered>>

(* load_application resolving the agent's tool references against result["tools"] *)
ResolveTools ==
    /\ graph = "loader"
    /\ load_pc = "resolve"
    /\ IF \E i \in DOMAIN agent_tools.names : agent_tools.names[i] \notin DOMAIN components
       THEN /\ load_pc' = "ValueError"
            /\ UNCHANGED agent_tools
       ELSE /\ load_pc' = "resolved"
            /\ agent_tools' = [agent_tools EXCEPT
                                   !.tools = [i \in DOMAIN agent_tools.names |->
                                                  components[agent_tools.names[i]]]]
    /\ UNCHANGED <<configs, pos, tools, components, agent_config, agent_result>>
    /\ UNCHANGED <<graph, node, step, status, recursion_limit, user_id, initial_state, state,
                   applied, llm_calls, store, index, tool_pc, last_call, checkpoints, runs>>
    /\ UNCHANGED <<chat_histories, lists, reqs, thread_store, checkpointer_bound, turns,
                   overlap, answered>>

AGENT_CONFIG ==
    [react |-> [required_fields |-> {"llm", "system_prompt"}],
     tool_call |-> [required_fields |-> {"llm"}],
     reflect |-> [required_fields |-> {"llm", "system_prompt", "reflection_prompt"}],
     plan_execute_replan |-> [required_fields |-> {"llm", "system_prompt"}],
     long_term_memory |-> [required_fields |-> {"llm", "connection_str", "namespace"}]]

PromptPaths == {None, "prompt.txt", "empty.txt", "missing.txt"}

(* An AgentConfig: a field is TRUE when it holds a non-empty value *)
AgentConfigs ==
    [agent_type : DOMAIN AGENT_CONFIG \cup {"chain"},
     llm : BOOLEAN,
     system_prompt : BOOLEAN,
     reflection_prompt : BOOLEAN,
     system_prompt_path : PromptPaths,
     reflection_prompt_path : PromptPaths,
     connection_str : BOOLEAN,
     namespace : BOOLEAN,
     additional_kwargs : {{}, {"reflection_prompt"}}]

(* load_prompt_from_file(prompt, path): the prompt it returns, or that it raised *)
load_prompt_from_file(prompt, path) ==
    IF ~prompt /\ path # None
    THEN IF path = "missing.txt"
         THEN [raised |-> TRUE, prompt |-> FALSE]
         ELSE [raised |-> FALSE, prompt |-> (path = "prompt.txt")]
    ELSE [raised |-> FALSE, prompt |-> prompt]

missing_fields(config) ==
    {field \in AGENT_CONFIG[config.agent_type].required_fields : ~config[field]}

Failure(why, missing) == [status |-> "ValueError", why |-> why, missing |-> missing]

(* load_agent up to the call of AgentFactory.create_agent *)
LoadAgent ==
    /\ graph = "loader"
    /\ load_pc = "load_agent"
    /\ LET system == load_prompt_from_file(agent_config.system_prompt,
                                           agent_config.system_prompt_path)
           reflection == load_prompt_from_file(agent_config.reflection_prompt,
                                               agent_config.reflection_prompt_path)
           with_system == [agent_config EXCEPT !.system_prompt = system.prompt]
           with_both == [with_system EXCEPT !.reflection_prompt = reflection.prompt]
       IN  IF agent_config.agent_type \notin DOMAIN AGENT_CONFIG
           THEN /\ agent_result' = Failure("unsupported", {})
                /\ UNCHANGED agent_config
           ELSE IF system.raised
           THEN /\ agent_result' = Failure("prompt_file", {})
                /\ UNCHANGED agent_config
           ELSE IF reflection.raised
           THEN /\ agent_result' = Failure("prompt_file", {})
                /\ agent_config' = with_system
           ELSE IF missing_fields(with_both) # {}
           THEN /\ agent_result' = Failure("missing_fields", missing_fields(with_both))
                /\ agent_config' = with_both
           ELSE IF /\ agent_config.agent_type = "reflect"
                   /\ "reflection_prompt" \notin agent_config.additional_kwargs
           THEN /\ agent_result' = Failure("reflection_kwargs", {})
                /\ agent_config' = with_both
           ELSE /\ agent_result' = [NoResult EXCEPT !.status = "creating"]
                /\ agent_config' = with_both
    /\ load_pc' = IF agent_result'.status = "creating" THEN "create_agent" ELSE "ValueError"
    /\ UNCHANGED <<configs, pos, tools, components, agent_tools>>
    /\ UNCHANGED <<graph, node, step, status, recursion_limit, user_id, initial_state, state,
                   applied, llm_calls, store, index, tool_pc, last_call, checkpoints, runs>>
    /\ UNCHANGED <<chat_histories, lists, reqs, thread_store, checkpointer_bound, turns,
                   overlap, answered>>

(* AgentFactory.create_agent: the agent, or any exception re-raised as RuntimeError *)
CreateAgent ==
    /\ graph = "loader"
    /\ load_pc = "create_agent"
    /\ \E created \in BOOLEAN :
           /\ load_pc' = IF created THEN "loaded" ELSE "RuntimeError"
           /\ agent_result' = [agent_result EXCEPT
                                   !.status = IF created THEN "agent" ELSE "RuntimeError"]
    /\ UNCHANGED <<configs, pos, tools, components, agent_tools, agent_config>>
    /\ UNCHANGED <<graph, node, step, status, recursion_limit, user_id, initial_state, state,
                   applied, llm_calls, store, index, tool_pc, last_call, checkpoints, runs>>
    /\ UNCHANGED <<chat_histories, lists, reqs, thread_store, checkpointer_bound, turns,
                   overlap, answered>>

ToolRefs == {<<>>} \cup {<<n>> : n \in ToolNames}

LoadInit ==
    /\ graph = "loader"
    /\ node = END
    /\ step = 0
    /\ status = "running"
    /\ recursion_limit = 1
    /\ user_id = None
    /\ state = <<>>
    /\ initial_state = state
    /\ applied = <<>>
    /\ llm_calls = 0
    /\ store = <<>>
    /\ index = "absent"
    /\ tool_pc = "idle"
    /\ last_call = NoCall
    /\ checkpoints = <<>>
    /\ runs = <<FirstRun>>
    /\ chat_histories = <<>>
    /\ lists = <<>>
    /\ reqs = [r \in Slots |-> IdleReq]
    /\ thread_store = [t \in Threads |-> <<>>]
    /\ checkpointer_bound = TRUE
    /\ turns = [t \in Threads |-> <<>>]
    /\ overlap = {}
    /\ answered = NoAnswer
    /\ pos = 0
    /\ tools = <<>>
    /\ components = <<>>
    /\ agent_result = NoResult
    /\ \/ /\ load_pc = "load_tools"
          /\ configs \in ConfigLists
          /\ agent_tools \in [names : ToolRefs, tools : {<<>>}]
          /\ agent_config = <<>>
       \/ /\ load_pc = "load_agent"
          /\ configs = <<>>
          /\ agent_tools = [names |-> <<>>, tools |-> <<>>]
          /\ agent_config \in AgentConfigs

LoadNext ==
    \/ LoadTool
    \/ LoadToolsReturn
    \/ ResolveTools
    \/ LoadAgent
    \/ CreateAgent

LoadSpec == LoadInit /\ [][LoadNext]_vars

----------------------------------------------------------------------------
(* Properties *)

LastApplied == applied[Len(applied)]

IsApplied(n) == applied' = Append(applied, [node |-> n, out |-> NoOut])

(* C1: in the plan-execute-replan graph, a replan step whose model output is
   a Response is the last node application of the run, the run then ends
   normally (no error status, next node END) and response holds the
   Response's text. *)
C1_ResponseEndsRun ==
    graph = "plan_execute_replan" =>
        \A i \in 1..Len(applied) :
            (applied[i].node = "replan" /\ applied[i].out.kind = "Response") =>
                /\ i = Len(applied)
                /\ status \in {"running", "done"}
                /\ node = END
                /\ Has(state, "response")
                /\ state.response = applied[i].out.response

(* C2: in the reflect graph, a run started with itr = 0 and max_iterations
   N >= 1 (3 when absent) applies generate, reflect, generate, ... in strict
   alternation, never more than 2N-1 nodes, and its next node is END exactly
   when 2N-1 nodes (N generate, N-1 reflect) have been applied. *)
C2_ReflectSchedule ==
    LET N == Get(initial_state, "max_iterations", 3)
    IN  (graph = "reflect" /\ Get(initial_state, "itr", 0) = 0 /\ N >= 1) =>
            /\ \A i \in 1..Len(applied) :
                  applied[i].node = (IF i % 2 = 1 THEN "generate" ELSE "reflect")
            /\ Len(applied) <= 2 * N - 1
            /\ (node = END) <=> (Len(applied) = 2 * N - 1)
            /\ status = "done" => node = END

C2_Witness ==
    /\ graph = "reflect"
    /\ status = "done"
    /\ ~Has(initial_state, "max_iterations")
    /\ ~Has(initial_state, "itr")
    /\ Len(applied) = 5

(* C3: in the reflect graph, for every initial itr and max_iterations, a run
   whose next node is END has just applied generate, and every reflect step
   that has a successor is followed by generate. *)
C3_EndsAfterGenerate ==
    graph = "reflect" =>
        /\ node = END => (applied # <<>> /\ LastApplied.node = "generate")
        /\ \A i \in 1..(Len(applied) - 1) :
              applied[i].node = "reflect" => applied[i + 1].node = "generate"
        /\ (applied # <<>> /\ LastApplied.node = "reflect") => node = "generate"

C3_Witness ==
    /\ graph = "reflect"
    /\ status = "done"
    /\ Has(initial_state, "itr") /\ initial_state.itr = -1
    /\ Has(initial_state, "max_iterations") /\ initial_state.max_iterations = 1
    /\ Len(applied) = 3
    /\ applied[2].node = "reflect"

(* C4: for every graph and recursion limit N, a run never applies more than
   N nodes; it ends with RecursionLimitExceeded only after exactly N node
   applications with its routing still short of END; and a run that has
   applied N nodes without reaching END can only end that way. *)
C4_RecursionLimit ==
    /\ [](graph \in Graphs =>
            /\ step <= recursion_limit
            /\ Len(applied) = step
            /\ status = "RecursionLimitExceeded" =>
                  (step = recursion_limit /\ node # END))
    /\ [][(graph \in Graphs /\ status = "running" /\ step = recursion_limit /\ node # END) =>
            /\ applied' = applied
            /\ state' = state
            /\ status' \in {"running", "RecursionLimitExceeded"}]_vars

C4_Witness ==
    /\ graph = "long_term_memory"
    /\ status = "RecursionLimitExceeded"
    /\ recursion_limit = 3
    /\ Len(applied) = 3
    /\ LastApplied.node = "tools"

(* C5: in every graph, the value the conditional edge's decision function
   returns is an entry of the edge's successor table, so no run ends in a
   routing error. *)
C5_DecisionsMapped ==
    /\ status # "RoutingError"
    /\ (graph \in Graphs /\ applied # <<>> /\ LastApplied.node \notin DOMAIN StaticEdges(graph)) =>
          Decide(graph, state) \in DOMAIN PathMap(graph)

(* C6: an execute step on a non-empty plan p appends exactly one pair
   (p[0], result) to past_steps, sets plan to p without its first element
   and leaves input and response as they were. *)
C6_ExecuteStep ==
    [][(graph = "plan_execute_replan" /\ node = "execute" /\ IsApplied("execute")
          /\ state.plan # <<>>) =>
            /\ \E result \in Results :
                  state'.past_steps = Append(state.past_steps, <<state.plan[1], result>>)
            /\ state'.plan = Tail(state.plan)
            /\ Has(state', "input") = Has(state, "input")
            /\ Has(state, "input") => state'.input = state.input
            /\ Has(state', "response") = Has(state, "response")
            /\ Has(state, "response") => state'.response = state.response]_vars

C6_Witness ==
    /\ graph = "plan_execute_replan"
    /\ applied # <<>> /\ LastApplied.node = "execute"
    /\ state.past_steps = <<(<<"b", "r">>)>>
    /\ state.plan = <<"a", "b">>

(* C7: an execute step that finds plan empty sets response to the non-empty
   no-steps message, makes no model or sub-agent call, and leaves plan and
   past_steps unchanged. *)
C7_ExecuteEmptyPlan ==
    [][(graph = "plan_execute_replan" /\ node = "execute" /\ status = "running"
          /\ state.plan = <<>>) =>
            /\ status' # "NodeError"
            /\ llm_calls' = llm_calls
            /\ step' = step + 1 =>
                  /\ IsApplied("execute")
                  /\ Has(state', "response")
                  /\ state'.response = NoStepsMessage
                  /\ state'.response # ""
                  /\ state'.plan = state.plan
                  /\ state'.past_steps = state.past_steps]_vars

C7_Witness ==
    /\ graph = "plan_execute_replan"
    /\ applied # <<>> /\ LastApplied.node = "execute"
    /\ state.plan = <<>>
    /\ state.past_steps = <<>>
    /\ Has(state, "response") /\ state.response = NoStepsMessage
    /\ llm_calls = 1

(* C8: in the long-term-memory graph, load_memories is the first node applied
   and is applied only there; the node applied after load_memories or tools
   is agent; the next node is END exactly when the last node applied is an
   agent step whose reply requests no tool calls. *)
C8_MemoryGraphOrder ==
    graph = "long_term_memory" =>
        /\ \A i \in 1..Len(applied) : (applied[i].node = "load_memories") <=> (i = 1)
        /\ \A i \in 1..(Len(applied) - 1) :
              applied[i].node \in {"load_memories", "tools"} => applied[i + 1].node = "agent"
        /\ (applied # <<>> /\ LastApplied.node \in {"load_memories", "tools"}) => node = "agent"
        /\ (node = END) <=>
              /\ applied # <<>>
              /\ LastApplied.node = "agent"
              /\ state.messages[Len(state.messages)].kind = "ai"
              /\ state.messages[Len(state.messages)].tool_calls = <<>>

C8_Witness ==
    /\ graph = "long_term_memory"
    /\ status = "done"
    /\ Len(applied) = 4
    /\ applied[3].node = "tools"

(* C9: a memory tool invoked under a configuration without user_id raises
   before it touches the memory store, the store and its index stay as they
   were, no document is ever owned by a substituted default owner, and a
   long-term-memory run without user_id stops in load_memories with an
   error. *)
C9_MissingUserFailsFast ==
    /\ [](/\ (last_call.tool # "none" /\ last_call.user_id = None) =>
                (last_call.outcome = "raised" /\ ~last_call.accessed)
          /\ \A i \in 1..Len(store) : store[i].user_id \in Users
          /\ (graph = "long_term_memory" /\ user_id = None) =>
                /\ applied = <<>>
                /\ last_call.tool # "none" => status = "NodeError")
    /\ [][(last_call' # last_call /\ last_call'.user_id = None) =>
            (store' = store /\ index' = index /\ tool_pc' = tool_pc)]_vars

C9_Witness ==
    /\ graph = "memory_tools"
    /\ store # <<>>
    /\ last_call.tool = "save_recall_memory"
    /\ last_call.user_id = None
    /\ last_call.outcome = "raised"

(* C10: a search made under one user id returns only documents of the store
   that were saved under that same user id, and every saved document is owned
   by the user id of the configuration it was saved under. *)
C10_MemoryIsolation ==
    /\ []((last_call.tool = "search_recall_memories" /\ last_call.outcome = "returned") =>
            /\ \A i \in 1..Len(last_call.documents) :
                  /\ last_call.documents[i].user_id = last_call.user_id
                  /\ \E j \in 1..Len(store) : store[j] = last_call.documents[i]
            /\ last_call.returned = PageContents(last_call.documents))
    /\ [][store' # store =>
            /\ Len(store') = Len(store) + 1
            /\ SubSeq(store', 1, Len(store)) = store
            /\ store'[Len(store')].user_id = last_call'.user_id
            /\ \A j \in 1..Len(store) : store[j].id # store'[Len(store')].id]_vars

C10_Witness ==
    /\ last_call.tool = "search_recall_memories"
    /\ last_call.user_id = "A"
    /\ last_call.outcome = "returned"
    /\ Len(last_call.documents) >= 1
    /\ \E j \in 1..Len(store) :
          /\ store[j].user_id = "B"
          /\ store[j].text = last_call.documents[1].text

(* C11: a save_recall_memory call that has created recall_memory_index and
   waits for it to become queryable terminates (returns or raises a timeout)
   after a bounded number of polls, even when the index never becomes
   queryable. *)
C11_SaveWaitTerminates == (tool_pc # "idle") ~> (tool_pc = "idle")

AgentCount(i) == Cardinality({j \in 1..i : applied[j].node = "agent"})

StubFollowed ==
    \A i \in 1..Len(applied) :
        applied[i].node = "agent" =>
            applied[i].out.kind = (IF AgentCount(i) <= 3 THEN "tool_call" ELSE "reply")

(* C12: in the react / tool-call graph, a run whose model replies with one
   tool call on each of its first three calls and with a plain reply on the
   fourth applies agent, tools, agent, tools, agent, tools, agent, its next
   node is END exactly after these 7 node applications (the fourth agent
   application), and messages then holds the caller's messages followed by
   exactly 7 new entries in the order ai, tool, ai, tool, ai, tool, ai. *)
C12_ReactStubRun ==
    LET n0 == Len(initial_state.messages)
    IN  (graph = "react" /\ StubFollowed) =>
            /\ \A i \in 1..Len(applied) :
                  applied[i].node = (IF i % 2 = 1 THEN "agent" ELSE "tools")
            /\ Len(applied) <= 7
            /\ (node = END) <=> (Len(applied) = 7)
            /\ Len(state.messages) = n0 + Len(applied)
            /\ \A i \in 1..n0 : state.messages[i] = initial_state.messages[i]
            /\ \A i \in 1..Len(applied) :
                  state.messages[n0 + i].kind = (IF i % 2 = 1 THEN "ai" ELSE "tool")

C12_Witness ==
    /\ graph = "react"
    /\ StubFollowed
    /\ status = "done"
    /\ AgentCount(Len(applied)) = 4
    /\ Len(initial_state.messages) = 1
    /\ Len(state.messages) = 8

(* C12 as first stated: such a run reaches END with its fourth agent
   application and messages then contains exactly 7 entries, ai and tool
   alternating. *)
C12_ReactStubRunSevenMessages ==
    (graph = "react" /\ StubFollowed /\ node = END) =>
        /\ AgentCount(Len(applied)) = 4
        /\ Len(state.messages) = 7
        /\ \A i \in 1..Len(state.messages) :
              state.messages[i].kind = (IF i % 2 = 1 THEN "ai" ELSE "tool")

PastSteps == {<<t, r>> : t \in Tasks, r \in Results}

(* messages without an id (0), with a caller-chosen id (-1), or carrying the
   id of a message the state already holds *)
NewMessageIds == {0, -1} \cup {state.messages[i].id : i \in 1..Min(1, Len(state.messages))}

NewMessages ==
    {[AIMessage(<<>>) EXCEPT !.id = i] : i \in NewMessageIds}
      \cup {[ToolMessage(<<"result">>) EXCEPT !.id = i] : i \in NewMessageIds}

MergedOneByOne(k, x, y) == Merge(graph, Merge(graph, state, k :> <<x>>), k :> <<y>>)

MergedAtOnce(k, x, y) == Merge(graph, state, k :> <<x, y>>)

(* C13: for the append-reduced fields (past_steps of plan-execute-replan,
   messages of the other graphs), merging the partial [x] and then the
   partial [y] into any state of a run gives the same state as merging the
   single partial [x, y]; the field keeps its earlier entries in place and x
   comes before y. *)
C13_AppendMergeAssociative ==
    /\ graph = "plan_execute_replan" =>
          \A x, y \in PastSteps :
              /\ MergedOneByOne("past_steps", x, y) = MergedAtOnce("past_steps", x, y)
              /\ MergedAtOnce("past_steps", x, y).past_steps = state.past_steps \o <<x, y>>
    /\ graph \in {"reflect", "long_term_memory", "react"} =>
          \A x, y \in NewMessages :
              LET m == MergedAtOnce("messages", x, y).messages
                  n == Len(state.messages)
              IN  /\ MergedOneByOne("messages", x, y) = MergedAtOnce("messages", x, y)
                  /\ (x.id = 0 /\ y.id = 0) =>
                        /\ Len(m) = n + 2
                        /\ SubSeq(m, 1, n) = state.messages
                        /\ m[n + 1].kind = x.kind /\ m[n + 2].kind = y.kind
                        /\ m[n + 1].id # m[n + 2].id

C13_Witness ==
    /\ graph = "plan_execute_replan"
    /\ Len(state.past_steps) = 2
    /\ state.past_steps[1] # state.past_steps[2]
    /\ Len(applied) >= 4

AbortKeepsCheckpoints ==
    (status = "running" /\ status' = "NodeError") =>
        /\ checkpoints' = checkpoints
        /\ state' = state /\ node' = node /\ step' = step /\ applied' = applied

CheckpointsOnlyAppended ==
    /\ Len(checkpoints') \in {Len(checkpoints), Len(checkpoints) + 1}
    /\ SubSeq(checkpoints', 1, Len(checkpoints)) = checkpoints

ContinuesAbortedRun ==
    /\ node' = node /\ step' = step /\ applied' = applied
    /\ state' = state
    /\ applied # <<>> => (state' = Latest.state /\ node' = Latest.next)

(* C14: a node function that raises at step k aborts the run with the error
   as its outcome and leaves the thread's checkpoints, the state and the
   position as they were; no later step changes a checkpoint already written;
   and a later invocation on the same thread identifier never starts from
   fresh state: resumed, it continues at the node that failed with the state
   of the latest checkpoint; invoked with a new input, it starts at the entry
   node with every checkpointed field kept (input, itr and max_iterations as
   the new input sets them). *)
C14_AbortAndLaterRun ==
    /\ [][AbortKeepsCheckpoints]_vars
    /\ [][CheckpointsOnlyAppended]_vars
    /\ [][(status = "NodeError" /\ status' = "running") =>
            /\ checkpoints' = checkpoints
            /\ \/ ContinuesAbortedRun
               \/ /\ node' = EntryPoint(graph) /\ step' = 0 /\ applied' = <<>>
                  /\ \A k \in DOMAIN LatestState(graph) :
                        /\ Has(state', k)
                        /\ k \notin {"input", "itr", "max_iterations"} =>
                              state'[k] = LatestState(graph)[k]]_vars

C14_Witness ==
    /\ graph = "reflect"
    /\ Len(runs) = 2
    /\ runs[2] = [kind |-> "resume", at |-> 2, after |-> "NodeError"]
    /\ Len(checkpoints) = 3
    /\ status = "done"

(* C14 as first stated: a node function that raises at step k aborts the run
   and leaves the checkpoints as they were, and every later run on the same
   thread identifier resumes from the last checkpointed step (at the node that
   failed, with the checkpointed state), not from the entry node; stated here
   for k >= 1. *)
C14_LaterRunResumesAtStep ==
    /\ [][AbortKeepsCheckpoints]_vars
    /\ [][CheckpointsOnlyAppended]_vars
    /\ [][(status = "NodeError" /\ applied # <<>> /\ status' = "running") =>
            (checkpoints' = checkpoints /\ ContinuesAbortedRun)]_vars

(* C15: over any sequence of runs on one thread identifier, every node
   application appends exactly one checkpoint, holding the state it produced,
   whose step index is greater than every step index the thread already has;
   entries already written are never changed or removed, and no step index
   occurs twice. *)
C15_CheckpointsAppendOnly ==
    /\ [](\A i, j \in 1..Len(checkpoints) :
              i < j => checkpoints[i].step < checkpoints[j].step)
    /\ [][CheckpointsOnlyAppended]_vars
    /\ [][step' = step + 1 =>
            /\ Len(checkpoints') = Len(checkpoints) + 1
            /\ checkpoints'[Len(checkpoints')].state = state'
            /\ \A i \in 1..Len(checkpoints) :
                  checkpoints[i].step < checkpoints'[Len(checkpoints')].step]_vars
    /\ [][step' # step + 1 => checkpoints' = checkpoints]_vars

C15_Witness ==
    /\ graph = "plan_execute_replan"
    /\ Len(runs) = 2
    /\ runs[2].kind = "invoke"
    /\ Len(applied) = 2
    /\ Len(checkpoints) = 5

(* C20: a run started on a thread identifier on which an earlier
   plan-execute-replan run has reached its decision to end starts with
   response unset, and a response it holds was written by an execute or
   replan step of this run. *)
C20_ResponseUnsetAtRunStart ==
    (graph = "plan_execute_replan" /\ runs[Len(runs)].kind = "invoke"
       /\ runs[Len(runs)].after \in {"done", "RoutingError"}) =>
        /\ applied = <<>> => ~Has(state, "response")
        /\ Has(state, "response") =>
              \E i \in 1..Len(applied) : applied[i].node \in {"execute", "replan"}

(* C17: in the reflect graph, a generate step taken with itr = i (0 when
   absent) extends messages by exactly one entry, which is labelled
   generate_i and carries the generation, sets final_response to that
   generation and itr to i + 1, and leaves input and max_iterations as they
   were. *)
C17_GenerateStep ==
    [][(graph = "reflect" /\ node = "generate" /\ IsApplied("generate")) =>
          LET i == Get(state, "itr", 0)
              n == Len(state.messages)
          IN  /\ Len(state'.messages) = n + 1
              /\ SubSeq(state'.messages, 1, n) = state.messages
              /\ state'.messages[n + 1].kind = "generate"
              /\ state'.messages[n + 1].idx = i
              /\ state'.messages[n + 1].text \in Generations
              /\ state'.final_response = state'.messages[n + 1].text
              /\ state'.itr = i + 1
              /\ state'.input = state.input
              /\ Has(state', "max_iterations") = Has(state, "max_iterations")
              /\ Has(state, "max_iterations") =>
                    state'.max_iterations = state.max_iterations]_vars

C17_Witness ==
    /\ graph = "reflect"
    /\ applied # <<>> /\ LastApplied.node = "generate"
    /\ Len(state.messages) = 3
    /\ state.messages[3].kind = "generate" /\ state.messages[3].idx = 1
    /\ state.itr = 2
    /\ ~Has(state, "max_iterations")

Targets(f) == {f[x] : x \in DOMAIN f}

EdgeTargets(g, n) ==
    (IF n \in DOMAIN StaticEdges(g) THEN {StaticEdges(g)[n]} ELSE {})
      \cup (IF n = ConditionalSource(g) THEN Targets(PathMap(g)) ELSE {})

RECURSIVE ReachableFrom(_, _)
ReachableFrom(g, S) ==
    LET T == S \cup UNION {EdgeTargets(g, n) : n \in S}
    IN  IF T = S THEN S ELSE ReachableFrom(g, T)

(* C19: in each graph, the entry node, every source and every target of a
   static edge and of the conditional edge's table is a declared node (a
   target may also be END), END is reachable from the entry node along the
   declared edges, and a run is only ever positioned at a declared node or at
   END. *)
C19_GraphWiring ==
    graph \in Graphs =>
        /\ EntryPoint(graph) \in Nodes(graph)
        /\ DOMAIN StaticEdges(graph) \subseteq Nodes(graph)
        /\ Targets(StaticEdges(graph)) \subseteq Nodes(graph) \cup {END}
        /\ ConditionalSource(graph) \in Nodes(graph)
        /\ ConditionalSource(graph) \notin DOMAIN StaticEdges(graph)
        /\ Targets(PathMap(graph)) \subseteq Nodes(graph) \cup {END}
        /\ END \in ReachableFrom(graph, {EntryPoint(graph)})
        /\ Nodes(graph) \subseteq ReachableFrom(graph, {EntryPoint(graph)})
        /\ node \in Nodes(graph) \cup {END}

C19_Witness ==
    /\ graph = "plan_execute_replan"
    /\ node = ConditionalSource(graph)
    /\ status = "running"
    /\ Len(applied) = 2
    /\ applied[1].node = "plan" /\ applied[2].node = "execute"

(* What the requests of one thread identifier produce when they are served
   one after the other with nothing else running: the chat history and the
   thread's checkpoints *)
RECURSIVE SoloRun(_, _, _)
SoloRun(log, hist, cps) ==
    IF log = <<>> THEN [history |-> hist, store |-> cps]
    ELSE LET turn == Head(log)
             s1 == AgentInitialState(cps, InputMessages(hist, turn.message))
             s2 == IF turn.applied THEN AgentAppliedState(s1) ELSE s1
             agent_response == IF turn.error # NoError THEN ErrorText(turn.error)
                               ELSE s2[Len(s2)].content
         IN  SoloRun(Tail(log),
                     hist \o <<Entry("user", [text |-> turn.message]),
                               Entry("assistant", agent_response)>>,
                     IF turn.applied THEN PutCheckpoint(cps, s2) ELSE cps)

OwnText(t, text) == text \in UserMessages(t) \cup {"reply", "Error: "}

(* C16: for a thread identifier whose requests never overlap one another,
   whatever requests on other thread identifiers run concurrently, the chat
   history and the checkpoints of the thread hold only messages of that
   thread and equal what its requests produce when served alone. *)
C16_ThreadsDoNotInterfere ==
    graph = "app" =>
        \A t \in Threads \ overlap :
            LET solo == SoloRun(turns[t], <<>>, <<>>)
                cps == thread_store[t]
            IN  /\ History(t) = solo.history
                /\ \A i \in 1..Len(History(t)) : OwnText(t, History(t)[i].content.text)
                /\ InFlight(t) = {} => cps = solo.store
                /\ \A r \in InFlight(t) :
                      /\ reqs[r].pc \in {"invoke", "running"} => cps = solo.store
                      /\ reqs[r].applied => cps = PutCheckpoint(solo.store, reqs[r].state)
                /\ \A i \in 1..Len(cps) : \A j \in 1..Len(cps[i].messages) :
                      OwnText(t, cps[i].messages[j].content.text)

C16_Witness ==
    /\ graph = "app"
    /\ checkpointer_bound
    /\ reqs[1].pc = "ran" /\ reqs[2].pc = "ran"
    /\ reqs[1].thread # reqs[2].thread
    /\ overlap = {}
    /\ Len(turns[reqs[1].thread]) = 1
    /\ Len(thread_store[reqs[1].thread]) = 2
    /\ Len(thread_store[reqs[2].thread]) = 1

StructuredFailure(body, e) ==
    /\ Has(body, "error")
    /\ body.error.node = e.node
    /\ body.error.step = e.step
    /\ body.error.kind =
          (IF e.type = "GraphRecursionError" THEN "RecursionLimitExceeded" ELSE e.type)

(* C18: every /chat request whose agent run failed (node exception, routing
   error or recursion limit) is answered with a structured failure that names
   the failing node and step and labels a recursion-limit abort as
   RecursionLimitExceeded. *)
C18_FailuresAreStructured ==
    graph = "app" =>
        \A t \in Threads : \A i \in 1..Len(turns[t]) :
            turns[t][i].error # NoError => StructuredFailure(turns[t][i].body, turns[t][i].error)

HumanCount(messages, text) ==
    Cardinality({i \in 1..Len(messages) :
                    messages[i].kind = "human" /\ messages[i].content.text = text})

(* C21: with a checkpointer bound, the messages on which the agent runs at
   the n-th of n successive /chat requests of a thread identifier (each
   carrying the same text) hold that user message exactly n times, once per
   request: the history the handler sends again is not appended a second time
   to the checkpointed messages. *)
C21_HistoryNotAppendedTwice ==
    (graph = "app" /\ checkpointer_bound) =>
        \A r \in Slots :
            (reqs[r].pc = "running" /\ reqs[r].thread \notin overlap) =>
                HumanCount(reqs[r].state, reqs[r].message) = Len(turns[reqs[r].thread]) + 1

(* C22: in the reflect graph, every generate step increases itr by exactly 1
   (from 0 when absent) and every reflect step leaves itr as it was; so when
   the next node is END itr >= max_iterations (3 when absent), and the
   reflection message that follows the message generate_k is labelled k + 1. *)
C22_ItrCounts ==
    /\ [][(graph = "reflect" /\ IsApplied("generate")) =>
            state'.itr = Get(state, "itr", 0) + 1]_vars
    /\ [][(graph = "reflect" /\ IsApplied("reflect")) =>
            (Has(state, "itr") /\ state'.itr = state.itr)]_vars
    /\ []((graph = "reflect" /\ node = END) =>
            state.itr >= Get(state, "max_iterations", 3))
    /\ [](graph = "reflect" =>
            \A i \in 2..Len(state.messages) :
                state.messages[i].kind = "reflection" =>
                    /\ state.messages[i - 1].kind = "generate"
                    /\ state.messages[i].idx = state.messages[i - 1].idx + 1)

C22_Witness ==
    /\ graph = "reflect"
    /\ status = "done"
    /\ Len(state.messages) = 3
    /\ state.messages[1].kind = "generate" /\ state.messages[1].idx = -1
    /\ state.messages[2].kind = "reflection" /\ state.messages[2].idx = 0
    /\ state.messages[3].kind = "generate" /\ state.messages[3].idx = 0
    /\ state.itr = 1
    /\ state.max_iterations = 1

ExecuteCount == Cardinality({i \in 1..Len(applied) : applied[i].node = "execute"})

InitialPlan == checkpoints[1].state.plan

(* every replan output so far is a Response or a Plan no longer than the plan
   that remained when replan was applied *)
ReplansShrink ==
    \A i \in 2..Len(applied) :
        (applied[i].node = "replan" /\ applied[i].out.kind = "Plan") =>
            Len(applied[i].out.steps) <= Len(checkpoints[i - 1].state.plan)

(* C23: in the plan-execute-replan graph, a run all of whose replan outputs
   are a Response or a Plan no longer than the remaining plan never applies
   more than len(initial plan) + 1 execute steps, does not end in a routing
   error, and once it has applied that many execute steps and the replan
   that follows, its next node is END; for every initial plan, the empty one
   included. *)
C23_EndsWithinPlanLength ==
    (graph = "plan_execute_replan" /\ applied # <<>> /\ ReplansShrink) =>
        /\ ExecuteCount <= Len(InitialPlan) + 1
        /\ status # "RoutingError"
        /\ (ExecuteCount = Len(InitialPlan) + 1 /\ LastApplied.node = "replan") => node = END

(* C24: a reflect-graph generate step whose state has no input key raises
   before any model or sub-agent call is made and returns no partial update:
   the run ends with the node's error, no model call is counted, no node
   application is recorded, and the state (messages, final_response, itr)
   stays as it was. *)
C24_GenerateWithoutInputRaises ==
    /\ [][(graph = "reflect" /\ status = "running" /\ node = "generate"
            /\ ~Has(state, "input")) =>
              /\ status' = "NodeError"
              /\ llm_calls' = llm_calls
              /\ applied' = applied
              /\ checkpoints' = checkpoints
              /\ state' = state]_vars
    /\ []((graph = "reflect" /\ ~Has(state, "input")) =>
            (applied = <<>> /\ llm_calls = 0 /\ state = initial_state))

C24_Witness ==
    /\ graph = "reflect"
    /\ status = "NodeError"
    /\ ~Has(state, "input")
    /\ Has(state, "itr") /\ state.itr = 1
    /\ state.messages = <<>>
    /\ ~Has(state, "final_response")
    /\ llm_calls = 0

SearchResultOf(c) ==
    \/ c.outcome = "fallback" /\ c.returned = <<NoMemories>>
    \/ /\ c.outcome = "returned"
       /\ Len(c.returned) <= 3
       /\ c.returned = PageContents(c.documents)
       /\ \A i, j \in 1..Len(c.documents) : i # j => c.documents[i] # c.documents[j]

(* C25: search_recall_memories never propagates a failure of the memory
   store: it raises only for a missing user_id, before the store is touched;
   when the similarity search raises it returns the single entry 'No relevant
   memories found.', and when the search succeeds it returns the contents of
   at most 3 distinct documents in the order the store ranked them.  So a
   load_memories step sets recall_memories to one of these two results, and
   no later step of the run changes it. *)
C25_SearchNeverPropagates ==
    /\ [](last_call.tool = "search_recall_memories" =>
            \/ last_call.outcome = "raised" /\ last_call.user_id = None /\ ~last_call.accessed
            \/ last_call.user_id # None /\ last_call.accessed /\ SearchResultOf(last_call))
    /\ [][(graph = "long_term_memory" /\ IsApplied("load_memories")) =>
            /\ status' = "running"
            /\ SearchResultOf(last_call')
            /\ state'.recall_memories = last_call'.returned]_vars
    /\ [][(graph = "long_term_memory" /\ Has(state, "recall_memories")) =>
            state'.recall_memories = state.recall_memories]_vars

C25_Witness ==
    /\ graph = "long_term_memory"
    /\ Len(store) = 4
    /\ Len(applied) = 3
    /\ applied[3].node = "tools"
    /\ state.recall_memories = <<NoMemories>>
    /\ last_call.tool = "search_recall_memories"
    /\ last_call.outcome = "returned"
    /\ Len(last_call.returned) = 3

RECURSIVE TokenAt(_, _)
TokenAt(tokens, p) ==
    LET h == Head(tokens)
        m == h.to - h.from + 1
    IN  IF p <= m THEN <<h.id, h.from + p - 1>> ELSE TokenAt(Tail(tokens), p - m)

(* C26: load_memories queries the memory store with a text of at most 2048
   tokens: when the conversation encodes to more than 2048 tokens the query
   is exactly its first 2048 tokens, in order, otherwise it is the whole
   conversation unchanged; and the step changes no field of the state other
   than recall_memories. *)
C26_QueryWithinTokenCap ==
    [][(graph = "long_term_memory" /\ IsApplied("load_memories")) =>
          LET convo == Encode(state.messages)
              n == TokenCount(convo)
              query == last_call'.arg.query
          IN  /\ last_call'.tool = "search_recall_memories"
              /\ TokenCount(query.parts) = query.tokens
              /\ query.tokens <= 2048
              /\ n > 2048 =>
                    /\ query.tokens = 2048
                    /\ \A p \in 1..2048 : TokenAt(query.parts, p) = TokenAt(convo, p)
              /\ n <= 2048 => query.parts = convo
              /\ DOMAIN state' = DOMAIN state \cup {"recall_memories"}
              /\ \A k \in DOMAIN state : k # "recall_memories" => state'[k] = state[k]]_vars

C26_Witness ==
    /\ graph = "long_term_memory"
    /\ Len(applied) = 1
    /\ Len(state.messages) = 2
    /\ TokenCount(Encode(state.messages)) = 2050
    /\ last_call.arg.query.parts = <<[id |-> 1, from |-> 1, to |-> 2040],
                                      [id |-> 2, from |-> 1, to |-> 8]>>
    /\ Has(state, "recall_memories")

Alternates(history) ==
    /\ Len(history) % 2 = 0
    /\ \A i \in 1..Len(history) :
          history[i].role = (IF i % 2 = 1 THEN "user" ELSE "assistant")

Responded(t) == Len(turns'[t]) = Len(turns[t]) + 1

AnsweredAs(route) == answered'.count = answered.count + 1 /\ answered'.route = route

(* C27: for a thread identifier whose /chat and /reset requests never
   overlap one another, the stored chat history always has even length and
   alternates user, assistant; every /chat request that reached the agent,
   whether the agent returned or raised, adds exactly the pair (user message,
   assistant reply or error text) to the end of its own thread's history; and
   a request rejected with 400 changes no history. *)
C27_HistoriesAlternate ==
    /\ [](graph = "app" => \A t \in Threads \ overlap : Alternates(History(t)))
    /\ [][\A t \in Threads :
            (Responded(t) /\ t \notin overlap') =>
                LET turn == turns'[t][Len(turns'[t])]
                IN  /\ HistoryKey(t) \in DOMAIN chat_histories'
                    /\ History(t)' = History(t) \o <<[role |-> "user",
                                                      content |-> [text |-> turn.message]],
                                                     [role |-> "assistant",
                                                      content |-> turn.body.response]>>
                    /\ turn.error # NoError => turn.body.response.text = "Error: "
                    /\ turn.body.history = History(t)']_vars
    /\ [][(AnsweredAs("chat") /\ answered'.status = "400") =>
            (chat_histories' = chat_histories /\ lists' = lists)]_vars

C27_Witness ==
    /\ graph = "app"
    /\ overlap = {}
    /\ answered.status = "400"
    /\ Len(History("t1")) = 4
    /\ History("t1")[4].content.text = "Error: "
    /\ turns["t1"][2].error # NoError

(* C28: /reset with a thread_id that has a history empties that thread's
   history and leaves every other thread's history as it was; /reset with an
   unknown thread_id changes nothing; /reset without a thread_id removes all
   histories; a /chat request on thread t changes no history other than
   t's; and no other step changes a history. *)
C28_ResetAndChatFrame ==
    /\ [][\A t \in Threads \cup {None} :
            (AnsweredAs("reset") /\ answered'.thread_id = t) =>
                IF t = None
                THEN chat_histories' = <<>> /\ \A u \in Threads : History(u)' = <<>>
                ELSE IF t \in DOMAIN chat_histories
                THEN /\ DOMAIN chat_histories' = DOMAIN chat_histories
                     /\ History(t)' = <<>>
                     /\ \A u \in Threads \ {t} : History(u)' = History(u)
                     /\ answered'.status = "success"
                ELSE /\ chat_histories' = chat_histories
                     /\ lists' = lists
                     /\ answered'.status = "warning"]_vars
    /\ [][\A t \in Threads :
            Responded(t) =>
                \A u \in Threads \ {t} :
                    /\ History(u)' = History(u)
                    /\ (u \in DOMAIN chat_histories') = (u \in DOMAIN chat_histories)]_vars
    /\ [][\A u \in Threads :
            History(u)' # History(u) =>
                \/ Responded(u)
                \/ AnsweredAs("reset") /\ answered'.thread_id \in {u, None}]_vars

C28_Witness ==
    /\ graph = "app"
    /\ answered = [count |-> 1, route |-> "reset", thread_id |-> "t1", status |-> "success"]
    /\ DOMAIN chat_histories = {"t1", "t2"}
    /\ History("t1") = <<>>
    /\ Len(History("t2")) = 2

(* Properties of the loaders *)

Values(mapping) == {mapping[key] : key \in DOMAIN mapping}

ToolsReturned == graph = "loader" /\ load_pc \in {"resolve", "resolved"}

\* C29: the mapping load_tools returns holds every tool instance that a successfully
\* loaded configuration produced, all tools of a list-yielding configuration included,
\* and an agent that refers to a configuration by name is given all of them.
C29_MappingHoldsEveryTool ==
    ToolsReturned =>
        /\ \A i \in DOMAIN tools : tools[i][2] \in Values(components)
        /\ load_pc = "resolved" =>
               \A i \in DOMAIN tools :
                   tools[i][1] \in Values(agent_tools.names) =>
                       tools[i][2] \in Values(agent_tools.tools)

LoadAgentEnded == graph = "loader" /\ agent_result.status # "-"

\* C30: for a supported agent type, load_agent raises a missing-configuration ValueError
\* only when a required field of the type is empty, and with every required field
\* supplied it goes on to AgentFactory.create_agent.
C30_MissingOnlyWhenRequiredEmpty ==
    (LoadAgentEnded /\ agent_config.agent_type \in DOMAIN AGENT_CONFIG) =>
        /\ (agent_result.why \in {"missing_fields", "reflection_kwargs"}) =>
               missing_fields(agent_config) # {}
        /\ missing_fields(agent_config) = {} =>
               agent_result.status \in {"creating", "agent", "RuntimeError"}

=============================================================================
